---- MODULE Spec2Model ----
(***************************************************************************)
(* A model of the Modbus codec: the addressable Unit and its builder       *)
(* (src/src/core.rs), the TCP transport with its MBAP header and           *)
(* transaction counter (src/src/modbus_tcp.rs) and the RTU transport with  *)
(* its CRC16 trailer (src/src/modbus_rtu.rs).                              *)
(*                                                                         *)
(* Bytes are integers 0..255, byte buffers are sequences (1-based here,    *)
(* 0-based in the source).  Option<T> is a sequence of length 0 or 1; a     *)
(* Vec built by a loop is a function over 1..n, the empty one being << >>. *)
(* A Result is a record: ok, val (the success value), err (the error       *)
(* variant), inner (the unit error wrapped by Protocol) and info (the      *)
(* values the variant carries).  A panic of the Rust code (a slice or      *)
(* index out of range) is the outcome PANIC.                               *)
(***************************************************************************)
EXTENDS Integers, Sequences, FiniteSets, TLC

\* ------------------------------------------------------------------ values

None == << >>
Some(v) == << v >>
IsSome(o) == Len(o) = 1
Unwrap(o) == o[1]

Ok(v) == [ok |-> TRUE, val |-> v, err |-> "", inner |-> "", info |-> << >>]
Err(e, info) == [ok |-> FALSE, val |-> << >>, err |-> e, inner |-> "", info |-> info]
Panic == Err("PANIC", << >>)
\* ModbusTransportError::Protocol(#[from] ModbusUnitError)
Protocol(r) == IF r.ok \/ r.err = "PANIC" THEN r
               ELSE [r EXCEPT !.err = "Protocol", !.inner = r.err]

\* `x as u8`, `x as u16` of a non-negative or negative integer
U8(x) == x % 256
U16(x) == x % 65536
Hi(x) == U8(U16(x) \div 256)
Lo(x) == U8(x)

\* ------------------------------------------------------------ RegisterType

RegisterTypes == {"CoilRegister", "DiscreteRegister", "HoldingRegister", "InputRegister"}
\* the discriminant of the enum, carried by InvalidRegisterTypeForWriteCommand
TypeIndex(t) == CASE t = "CoilRegister" -> 0
                  [] t = "DiscreteRegister" -> 1
                  [] t = "HoldingRegister" -> 2
                  [] t = "InputRegister" -> 3

\* ------------------------------------------------------ ModbusUnitBuilder

Builder(a, l, t, r, w, m) ==
    [start_addr |-> a, length |-> l, register_type |-> t,
     spec_read_cmd |-> r, spec_write_cmd |-> w, spec_multi_write_cmd |-> m]

Unit(a, l, t, r, w, m) ==
    [start_addr |-> a, length |-> l, register_type |-> t,
     read_cmd |-> r, write_cmd |-> w, multi_write_cmd |-> m]

NoUnit == Unit(0, 0, "", None, None, None)

\* build(): [ok, unit, err, info]
BuildOk(u) == [ok |-> TRUE, unit |-> u, err |-> "", info |-> << >>]
BuildErr(e, info) == [ok |-> FALSE, unit |-> NoUnit, err |-> e, info |-> info]

\* a changed build: a range that ends exactly at 65535 is refused
build_range_off_by_one(b) ==
    IF ~IsSome(b.start_addr) THEN BuildErr("AddressIsEmpty", << >>)
    ELSE LET start_addr == Unwrap(b.start_addr) IN
    IF start_addr < 0 \/ start_addr > 65535
        THEN BuildErr("InvalidAddress", <<start_addr>>)
    ELSE IF ~IsSome(b.register_type) THEN BuildErr("InvalidRegisterType", << >>)
    ELSE IF IsSome(b.length) /\ (Unwrap(b.length) < 0 \/ Unwrap(b.length) > 65535)
        THEN BuildErr("InvalidLength", <<Unwrap(b.length)>>)
    ELSE LET length == IF IsSome(b.length) THEN Unwrap(b.length) ELSE 1
             end_addr == start_addr + length IN
    IF end_addr >= 65535
        THEN BuildErr("RangeToMatch", <<start_addr, length, end_addr>>)
    ELSE IF IsSome(b.spec_read_cmd)
            /\ (Unwrap(b.spec_read_cmd) < 0 \/ Unwrap(b.spec_read_cmd) > 255)
        THEN BuildErr("InvalidReadCommand", <<Unwrap(b.spec_read_cmd)>>)
    ELSE IF IsSome(b.spec_write_cmd)
            /\ (Unwrap(b.spec_write_cmd) < 0 \/ Unwrap(b.spec_write_cmd) > 255)
        THEN BuildErr("InvalidWriteCommand", <<Unwrap(b.spec_write_cmd)>>)
    ELSE IF IsSome(b.spec_multi_write_cmd)
            /\ (Unwrap(b.spec_multi_write_cmd) < 0 \/ Unwrap(b.spec_multi_write_cmd) > 255)
        THEN BuildErr("InvalidWriteMultiCommand", <<Unwrap(b.spec_multi_write_cmd)>>)
    ELSE BuildOk(Unit(U16(start_addr), U16(length), Unwrap(b.register_type),
                      b.spec_read_cmd, b.spec_write_cmd, b.spec_multi_write_cmd))

build(b) ==
    IF ~IsSome(b.start_addr) THEN BuildErr("AddressIsEmpty", << >>)
    ELSE LET start_addr == Unwrap(b.start_addr) IN
    IF start_addr < 0 \/ start_addr > 65535
        THEN BuildErr("InvalidAddress", <<start_addr>>)
    ELSE IF ~IsSome(b.register_type) THEN BuildErr("InvalidRegisterType", << >>)
    ELSE IF IsSome(b.length) /\ (Unwrap(b.length) < 0 \/ Unwrap(b.length) > 65535)
        THEN BuildErr("InvalidLength", <<Unwrap(b.length)>>)
    ELSE LET length == IF IsSome(b.length) THEN Unwrap(b.length) ELSE 1
             end_addr == start_addr + length IN
    IF end_addr > 65535
        THEN BuildErr("RangeToMatch", <<start_addr, length, end_addr>>)
    ELSE IF IsSome(b.spec_read_cmd)
            /\ (Unwrap(b.spec_read_cmd) < 0 \/ Unwrap(b.spec_read_cmd) > 255)
        THEN BuildErr("InvalidReadCommand", <<Unwrap(b.spec_read_cmd)>>)
    ELSE IF IsSome(b.spec_write_cmd)
            /\ (Unwrap(b.spec_write_cmd) < 0 \/ Unwrap(b.spec_write_cmd) > 255)
        THEN BuildErr("InvalidWriteCommand", <<Unwrap(b.spec_write_cmd)>>)
    ELSE IF IsSome(b.spec_multi_write_cmd)
            /\ (Unwrap(b.spec_multi_write_cmd) < 0 \/ Unwrap(b.spec_multi_write_cmd) > 255)
        THEN BuildErr("InvalidWriteMultiCommand", <<Unwrap(b.spec_multi_write_cmd)>>)
    ELSE BuildOk(Unit(U16(start_addr), U16(length), Unwrap(b.register_type),
                      b.spec_read_cmd, b.spec_write_cmd, b.spec_multi_write_cmd))

\* ModbusTCPBuilder, ModbusRTUBuilder: the Unit's builder and the device id
TransportBuilder(ub, d) == [unit_builder |-> ub, device_id |-> d]

\* ModbusTCP::builder(), ModbusRTU::builder()
NewBuilder == TransportBuilder(Builder(None, None, None, None, None, None), None)

\* ------------------------------------------------------- ModbusUnit: read

get_read_command(u) ==
    CASE u.register_type = "CoilRegister" -> 1
      [] u.register_type = "DiscreteRegister" -> 2
      [] u.register_type = "HoldingRegister" -> 3
      [] u.register_type = "InputRegister" -> 4

\* a changed create_read_request: the read_command override is ignored
create_read_request_default_only(u) ==
    Ok(<<get_read_command(u), Hi(u.start_addr), Lo(u.start_addr), Hi(u.length), Lo(u.length)>>)

create_read_request(u) ==
    LET command == IF IsSome(u.read_cmd) THEN U8(Unwrap(u.read_cmd))
                   ELSE get_read_command(u)
    IN Ok(<<command, Hi(u.start_addr), Lo(u.start_addr), Hi(u.length), Lo(u.length)>>)

\* ------------------------------------------------------ ModbusUnit: write

get_single_write_command(u) ==
    IF IsSome(u.write_cmd) THEN Ok(U8(Unwrap(u.write_cmd)))
    ELSE CASE u.register_type = "CoilRegister" -> Ok(5)
           [] u.register_type = "HoldingRegister" -> Ok(6)
           [] OTHER -> Err("InvalidRegisterTypeForWriteCommand",
                           <<TypeIndex(u.register_type)>>)

get_multi_write_command(u) ==
    IF IsSome(u.multi_write_cmd) THEN Ok(U8(Unwrap(u.multi_write_cmd)))
    ELSE CASE u.register_type = "CoilRegister" -> Ok(15)
           [] u.register_type = "HoldingRegister" -> Ok(16)
           [] OTHER -> Err("InvalidRegisterTypeForWriteCommand",
                           <<TypeIndex(u.register_type)>>)

\* a changed get_write_command: the command follows the Unit's length, not the payload's
get_write_command_by_unit_length(u, length) ==
    IF u.length = 1 THEN get_single_write_command(u) ELSE get_multi_write_command(u)

get_write_command(u, length) ==
    IF length = 1 THEN get_single_write_command(u) ELSE get_multi_write_command(u)

\* i16::try_from(item) succeeds
FitsI16(v) == -32768 <= v /\ v <= 32767

get_for_body_for_holding_write(u, data, cmd) ==
    LET n == Len(data)
        head == <<cmd, Hi(u.start_addr), Lo(u.start_addr)>>
        multi == IF n > 1 THEN <<U8(n \div 256), U8(n), U8(n * 2)>> ELSE << >>
        bad == {i \in 1..n : ~FitsI16(data[i])}
        byte(k) == IF k % 2 = 1 THEN Hi(data[(k + 1) \div 2]) ELSE Lo(data[k \div 2])
    IN IF bad # {}
       THEN Err("ValueOverflow", <<data[CHOOSE i \in bad : \A j \in bad : i <= j]>>)
       ELSE Ok(head \o multi \o [k \in 1..(2 * n) |-> byte(k)])

get_for_body_for_coils_write(u, data, cmd) ==
    LET n == Len(data)
        head == <<cmd, Hi(u.start_addr), Lo(u.start_addr)>>
        bad == {i \in 1..n : data[i] # 0 /\ data[i] # 1}
        first == CHOOSE i \in bad : \A j \in bad : i <= j
        byte_count == (n + 7) \div 8
        bit(i) == IF i <= n /\ data[i] # 0 THEN 1 ELSE 0
        byte(j) == bit(8 * j - 7) + 2 * bit(8 * j - 6) + 4 * bit(8 * j - 5)
                   + 8 * bit(8 * j - 4) + 16 * bit(8 * j - 3) + 32 * bit(8 * j - 2)
                   + 64 * bit(8 * j - 1) + 128 * bit(8 * j)
    IN IF bad # {}
       THEN Err("InvalidCoilValue", <<data[first], first - 1>>)
       ELSE IF n = 1
       THEN Ok(head \o <<(IF data[1] # 0 THEN 255 ELSE 0), 0>>)
       ELSE Ok(head \o <<U8(n \div 256), U8(n), U8(byte_count)>> \o [j \in 1..byte_count |-> byte(j)])

\* a changed get_write_request: the payload length is compared after the command
\* is chosen
get_write_request_length_late(u, data) ==
    LET cmd == get_write_command(u, Len(data)) IN
    IF ~cmd.ok THEN cmd
    ELSE IF Len(data) > u.length
    THEN Err("DataLengthMismatch", <<u.length, Len(data)>>)
    ELSE CASE u.register_type = "CoilRegister" ->
                  get_for_body_for_coils_write(u, data, cmd.val)
           [] u.register_type = "HoldingRegister" ->
                  get_for_body_for_holding_write(u, data, cmd.val)
           [] OTHER -> Err("InvalidRegisterTypeForWriteCommand",
                           <<TypeIndex(u.register_type)>>)

get_write_request(u, data) ==
    IF Len(data) > u.length
    THEN Err("DataLengthMismatch", <<u.length, Len(data)>>)
    ELSE LET cmd == get_write_command(u, Len(data)) IN
         IF ~cmd.ok THEN cmd
         ELSE CASE u.register_type = "CoilRegister" ->
                       get_for_body_for_coils_write(u, data, cmd.val)
                [] u.register_type = "HoldingRegister" ->
                       get_for_body_for_holding_write(u, data, cmd.val)
                [] OTHER -> Err("InvalidRegisterTypeForWriteCommand",
                                <<TypeIndex(u.register_type)>>)

\* --------------------------------------------------- ModbusUnit: responses

parse_holding_registers(u, pdu) ==
    IF Len(pdu) < 2 THEN Err("InvalidResponseLength", << >>)
    ELSE LET byte_count == pdu[2]
             expected_bytes == u.length * 2
             value(i) == pdu[2 * i + 1] * 256 + pdu[2 * i + 2]
         IN IF byte_count # expected_bytes \/ Len(pdu) < 2 + byte_count
            THEN Err("InvalidResponseLength", << >>)
            ELSE Ok([i \in 1..u.length |-> value(i)])

\* a changed parse_coils: the bits of a byte are taken highest first
parse_coils_msb_first(u, pdu) ==
    IF Len(pdu) < 2 THEN Err("InvalidResponseLength", << >>)
    ELSE LET byte_count == pdu[2]
             expected_bytes == (u.length + 7) \div 8
             bit_value(i) == (pdu[3 + ((i - 1) \div 8)] \div (2 ^ (7 - ((i - 1) % 8)))) % 2
         IN IF byte_count # expected_bytes \/ Len(pdu) < 2 + byte_count
            THEN Err("InvalidResponseLength", << >>)
            ELSE Ok([i \in 1..u.length |-> bit_value(i)])

parse_coils(u, pdu) ==
    IF Len(pdu) < 2 THEN Err("InvalidResponseLength", << >>)
    ELSE LET byte_count == pdu[2]
             expected_bytes == (u.length + 7) \div 8
             \* i is the 1-based index of the value, i - 1 the source's i
             bit_value(i) == (pdu[3 + ((i - 1) \div 8)] \div (2 ^ ((i - 1) % 8))) % 2
         IN IF byte_count # expected_bytes \/ Len(pdu) < 2 + byte_count
            THEN Err("InvalidResponseLength", << >>)
            ELSE Ok([i \in 1..u.length |-> bit_value(i)])

\* a changed parse_response: the function code is compared before the exception bit
parse_response_code_first(u, pdu) ==
    IF Len(pdu) = 0 THEN Err("EmptyResponse", << >>)
    ELSE LET function_code == pdu[1]
             expected_fc == get_read_command(u)
         IN IF function_code # expected_fc
            THEN Err("UnexpectedFunctionCode", <<expected_fc, function_code>>)
            ELSE IF function_code >= 128
            THEN Err("ModbusException",
                     <<function_code, IF Len(pdu) > 1 THEN pdu[2] ELSE 0>>)
            ELSE IF u.register_type \in {"HoldingRegister", "InputRegister"}
                 THEN parse_holding_registers(u, pdu)
                 ELSE parse_coils(u, pdu)

parse_response(u, pdu) ==
    IF Len(pdu) = 0 THEN Err("EmptyResponse", << >>)
    ELSE LET function_code == pdu[1] IN
         IF function_code >= 128
         THEN Err("ModbusException",
                  <<function_code, IF Len(pdu) > 1 THEN pdu[2] ELSE 0>>)
         ELSE LET expected_fc == get_read_command(u) IN
              IF function_code # expected_fc
              THEN Err("UnexpectedFunctionCode", <<expected_fc, function_code>>)
              ELSE IF u.register_type \in {"HoldingRegister", "InputRegister"}
                   THEN parse_holding_registers(u, pdu)
                   ELSE parse_coils(u, pdu)

\* ------------------------------------------------------------- ModbusTCP

\* a changed wrap_tcp: the counter saturates at 65535 instead of wrapping
wrap_tcp_saturating(transaction_id_, device_id_, bytes) ==
    LET t == IF transaction_id_ = 65535 THEN 65535 ELSE transaction_id_ + 1
        length == U16(Len(bytes) + 1)
    IN [transaction_id |-> t,
        frame |-> <<Hi(t), Lo(t), 0, 0, Hi(length), Lo(length), device_id_>> \o bytes]

\* wrap_tcp(&mut self, pdu): the new counter and the frame
wrap_tcp(transaction_id_, device_id_, bytes) ==
    LET t == (transaction_id_ + 1) % 65536
        length == U16(Len(bytes) + 1)
    IN [transaction_id |-> t,
        frame |-> <<Hi(t), Lo(t), 0, 0, Hi(length), Lo(length), device_id_>> \o bytes]

unwrap_tcp(device_id_, bytes) ==
    IF Len(bytes) < 7 THEN Err("FrameTooShort", << >>)
    ELSE LET protocol_id == bytes[3] * 256 + bytes[4]
             unit_id == bytes[7]
             length == bytes[5] * 256 + bytes[6]
             expected_len == 6 + length
         IN IF protocol_id # 0 THEN Err("InvalidProtocolId", <<protocol_id>>)
            ELSE IF unit_id # device_id_
            THEN Err("UnitIdMismatch", <<device_id_, unit_id>>)
            ELSE IF Len(bytes) < expected_len THEN Err("FrameTooShort", << >>)
            \* frame[7..expected_len] panics when 7 > expected_len
            ELSE IF 7 > expected_len THEN Panic
            ELSE Ok(SubSeq(bytes, 8, expected_len))

\* the three public calls; a request returns [transaction_id, res]
tcp_create_read_request(u, device_id_, transaction_id_) ==
    LET p == Protocol(create_read_request(u))
        w == wrap_tcp(transaction_id_, device_id_, p.val)
    IN IF ~p.ok THEN [transaction_id |-> transaction_id_, res |-> p]
       ELSE [transaction_id |-> w.transaction_id, res |-> Ok(w.frame)]

\* a changed create_write_request: the counter moves before the payload is checked
tcp_create_write_request_count_first(u, device_id_, transaction_id_, data) ==
    LET p == Protocol(get_write_request(u, data))
        w == wrap_tcp(transaction_id_, device_id_, p.val)
    IN IF ~p.ok THEN [transaction_id |-> w.transaction_id, res |-> p]
       ELSE [transaction_id |-> w.transaction_id, res |-> Ok(w.frame)]

tcp_create_write_request(u, device_id_, transaction_id_, data) ==
    LET p == Protocol(get_write_request(u, data))
        w == wrap_tcp(transaction_id_, device_id_, p.val)
    IN IF ~p.ok THEN [transaction_id |-> transaction_id_, res |-> p]
       ELSE [transaction_id |-> w.transaction_id, res |-> Ok(w.frame)]

tcp_parse_response(u, device_id_, bytes) ==
    LET p == unwrap_tcp(device_id_, bytes)
    IN IF ~p.ok THEN p ELSE Protocol(parse_response(u, p.val))

\* the outcome of a transport builder's build()
TransportOk(u, d) ==
    [ok |-> TRUE, unit |-> u, device_id |-> d, err |-> "", inner |-> "", info |-> << >>]
TransportErr(e, inner, info) ==
    [ok |-> FALSE, unit |-> NoUnit, device_id |-> 0, err |-> e, inner |-> inner, info |-> info]

\* a changed build: the device id is looked at before the Unit is built
tcp_build_device_first(tb) ==
    LET r == build(tb.unit_builder) IN
    IF ~IsSome(tb.device_id) THEN TransportErr("DeviceIdMissing", "", << >>)
    ELSE IF ~r.ok THEN TransportErr("Protocol", r.err, r.info)
    ELSE TransportOk(r.unit, Unwrap(tb.device_id))

\* ModbusTCPBuilder::build; the transport starts with transaction_id 0
tcp_build(tb) ==
    LET r == build(tb.unit_builder) IN
    IF ~r.ok THEN TransportErr("Protocol", r.err, r.info)
    ELSE IF ~IsSome(tb.device_id) THEN TransportErr("DeviceIdMissing", "", << >>)
    ELSE TransportOk(r.unit, Unwrap(tb.device_id))

\* ------------------------------------------------------------- ModbusRTU

RECURSIVE BitXor(_, _)
BitXor(a, b) ==
    IF a = 0 THEN b
    ELSE IF b = 0 THEN a
    ELSE (((a % 2) + (b % 2)) % 2) + 2 * BitXor(a \div 2, b \div 2)

\* one round of the inner loop: a right shift with the conditional XOR
crc_round(crc) == IF crc % 2 # 0 THEN BitXor(crc \div 2, 40961) ELSE crc \div 2

\* `for _ in 0..8`: the eight rounds for one byte
crc_byte(crc, byte) ==
    crc_round(crc_round(crc_round(crc_round(
        crc_round(crc_round(crc_round(crc_round(BitXor(crc, byte)))))))))

\* `for &byte in data`, from index i on; crc is evaluated before each step
RECURSIVE crc_from(_, _, _)
crc_from(bytes, i, crc) ==
    IF i > Len(bytes) \/ crc < 0 THEN crc
    ELSE crc_from(bytes, i + 1, crc_byte(crc, bytes[i]))

calculate_crc(bytes) == crc_from(bytes, 1, 65535)

\* a changed wrap_rtu: the CRC is appended high byte first
wrap_rtu_crc_high_first(device_id_, bytes) ==
    LET body == <<device_id_>> \o bytes
        crc == calculate_crc(body)
    IN body \o <<Hi(crc), Lo(crc)>>

wrap_rtu(device_id_, bytes) ==
    LET body == <<device_id_>> \o bytes
        crc == calculate_crc(body)
    IN body \o <<Lo(crc), Hi(crc)>>

\* a changed unwrap_rtu: the CRC is checked before the address byte
unwrap_rtu_crc_first(device_id_, bytes) ==
    IF Len(bytes) < 4 THEN Err("FrameTooShort", << >>)
    ELSE LET unit_id == bytes[1]
             received_crc == bytes[Len(bytes)] * 256 + bytes[Len(bytes) - 1]
             calculated_crc == calculate_crc(SubSeq(bytes, 1, Len(bytes) - 2))
         IN IF received_crc # calculated_crc
            THEN Err("CrcMismatch", <<calculated_crc, received_crc>>)
            ELSE IF unit_id # device_id_
            THEN Err("UnitIdMismatch", <<device_id_, unit_id>>)
            ELSE Ok(SubSeq(bytes, 2, Len(bytes) - 2))

unwrap_rtu(device_id_, bytes) ==
    IF Len(bytes) < 4 THEN Err("FrameTooShort", << >>)
    ELSE LET unit_id == bytes[1]
             received_crc == bytes[Len(bytes)] * 256 + bytes[Len(bytes) - 1]
             calculated_crc == calculate_crc(SubSeq(bytes, 1, Len(bytes) - 2))
         IN IF unit_id # device_id_
            THEN Err("UnitIdMismatch", <<device_id_, unit_id>>)
            ELSE IF received_crc # calculated_crc
            THEN Err("CrcMismatch", <<calculated_crc, received_crc>>)
            ELSE Ok(SubSeq(bytes, 2, Len(bytes) - 2))

rtu_create_read_request(u, device_id_) ==
    LET p == Protocol(create_read_request(u))
    IN IF ~p.ok THEN p ELSE Ok(wrap_rtu(device_id_, p.val))

\* the source calls get_write_request without the payload; it is passed here as
\* ModbusTCP::create_write_request passes it
rtu_create_write_request(u, device_id_, data) ==
    LET p == Protocol(get_write_request(u, data))
    IN IF ~p.ok THEN p ELSE Ok(wrap_rtu(device_id_, p.val))

rtu_parse_response(u, device_id_, bytes) ==
    LET p == unwrap_rtu(device_id_, bytes)
    IN IF ~p.ok THEN p ELSE Protocol(parse_response(u, p.val))

\* ModbusRTUBuilder::build
rtu_build(tb) ==
    LET r == build(tb.unit_builder) IN
    IF ~r.ok THEN TransportErr("Protocol", r.err, r.info)
    ELSE IF ~IsSome(tb.device_id) THEN TransportErr("DeviceIdMissing", "", << >>)
    ELSE TransportOk(r.unit, Unwrap(tb.device_id))

\* ------------------------------------------------------------------ state

VARIABLES
    builder,         \* the transport builder being configured; a fresh one while
                     \* a built transport is in use
    unit,            \* the transport's ModbusUnit
    device_id,       \* the transport's device_id
    transaction_id,  \* ModbusTCP.transaction_id (stays 0 on an RTU transport)
    sent,            \* history: the number of TCP request frames returned so far
    pc,              \* "idle": between calls; "done": a call has returned
    op,              \* the call that returned last
    arg,             \* its argument: a write payload or a received frame; the
                     \* unwrapping of a request frame keeps the request's payload
    wire,            \* the request frame that came back with one bit inverted
    result           \* the Result that call returned

vars == <<builder, unit, device_id, transaction_id, sent, pc, op, arg, wire, result>>

NoResult == Err("", << >>)

\* ----------------------------------------------------------------- bounds

\* request frames per run of the TCP session
MaxRequests == 2
\* request frames per run of the transaction-counter session: past the wrap
MaxTxRequests == 65538
\* payloads are enumerated in full up to this length
MaxPayload == 2
\* the largest declared MBAP length of an enumerated frame
MaxDeclared == 5

SeqsUpTo(S, n) == UNION {[1..k -> S] : k \in 0..n}
Prefixes(s, n) == {SubSeq(s, 1, k) : k \in 0..n}

DeviceIds == {1, 17}

\* ------------------------------------------------------ the TCP session

TcpConfigs ==
    {Builder(Some(a), l, Some(t), r, None, None) :
        a \in {100, 4660}, l \in {None, Some(2), Some(300)},
        t \in RegisterTypes, r \in {None, Some(65)}}

PayloadValues == {0, 1, 2, -1, 4660, 40000}
TcpPayloads == SeqsUpTo(PayloadValues, MaxPayload) \cup {<<1, 0, 1>>, <<0, 0, 0, 7>>}

TcpBodies ==
    {<< >>, <<3>>, <<3, 4, 18, 52, 86, 120>>, <<3, 4, 18, 52, 86, 120, 255>>,
     <<1, 1, 5>>, <<131, 2>>}

TcpHeader(t, p, l, u) == <<Hi(t), Lo(t), Hi(p), Lo(p), Hi(l), Lo(l), u>>

TcpFrames ==
    {TcpHeader(t, p, l, u) \o b :
        t \in {1, 43981}, p \in {0, 1, 256}, l \in (0..MaxDeclared) \cup {7, 8, 263},
        u \in DeviceIds, b \in TcpBodies}
    \cup Prefixes(<<0, 1, 0, 0, 0, 7>>, 6)
    \cup Prefixes(<<0, 1, 0, 9, 0, 7>>, 6)

InitTcp(configs, devices) ==
    /\ \E b \in configs, d \in devices :
          /\ build(b).ok
          /\ unit = build(b).unit
          /\ device_id = d
    /\ transaction_id = 0
    /\ sent = 0
    /\ pc = "idle"
    /\ op = ""
    /\ arg = << >>
    /\ wire = << >>
    /\ result = NoResult
    /\ builder = NewBuilder

TcpCreateReadRequest(cap) ==
    /\ pc = "idle"
    /\ sent < cap
    /\ LET r == tcp_create_read_request(unit, device_id, transaction_id) IN
          /\ transaction_id' = r.transaction_id
          /\ sent' = IF r.res.ok THEN sent + 1 ELSE sent
          /\ wire' = << >>
          /\ result' = r.res
    /\ op' = "read"
    /\ arg' = << >>
    /\ pc' = "done"
    /\ UNCHANGED <<builder, unit, device_id>>

TcpCreateWriteRequest(cap, payloads) ==
    /\ pc = "idle"
    /\ sent < cap
    /\ \E data \in payloads :
          LET r == tcp_create_write_request(unit, device_id, transaction_id, data) IN
          /\ transaction_id' = r.transaction_id
          /\ sent' = IF r.res.ok THEN sent + 1 ELSE sent
          /\ wire' = << >>
          /\ result' = r.res
          /\ arg' = data
    /\ op' = "write"
    /\ pc' = "done"
    /\ UNCHANGED <<builder, unit, device_id>>

TcpParseResponse(frames) ==
    /\ pc = "idle"
    /\ \E f \in frames :
          /\ arg' = f
          /\ result' = tcp_parse_response(unit, device_id, f)
    /\ op' = "parse"
    /\ wire' = << >>
    /\ pc' = "done"
    /\ UNCHANGED <<builder, unit, device_id, transaction_id, sent>>

\* the frame of the last request, handed back unchanged, is unwrapped
TcpUnwrapOwn ==
    /\ pc = "done"
    /\ op \in {"read", "write"}
    /\ result.ok
    /\ op' = IF op = "write" THEN "unwrap_own_write" ELSE "unwrap_own_read"
    /\ result' = unwrap_tcp(device_id, result.val)
    /\ UNCHANGED <<builder, unit, device_id, transaction_id, sent, pc, arg, wire>>

\* the caller takes the returned value; the transport is ready for the next call
Return ==
    /\ pc = "done"
    /\ pc' = "idle"
    /\ op' = ""
    /\ arg' = << >>
    /\ wire' = << >>
    /\ result' = NoResult
    /\ UNCHANGED <<builder, unit, device_id, transaction_id, sent>>

Init == InitTcp(TcpConfigs, DeviceIds)

Next ==
    \/ TcpCreateReadRequest(MaxRequests)
    \/ TcpCreateWriteRequest(MaxRequests, TcpPayloads)
    \/ TcpParseResponse(TcpFrames)
    \/ TcpUnwrapOwn
    \/ Return

Spec == Init /\ [][Next]_vars

\* ------------------------------------------- the transaction-counter session

TxConfigs == {Builder(Some(100), Some(10), Some("HoldingRegister"), None, None, None)}
TxPayloads == {<<4660>>, <<1, 2>>, <<70000>>}
TxFrames == {<<0, 1, 0, 0, 0, 3, 1, 131, 2>>, <<0, 1, 0, 0>>}

InitTx == InitTcp(TxConfigs, {1})

NextTx ==
    \/ TcpCreateReadRequest(MaxTxRequests)
    \/ TcpCreateWriteRequest(MaxTxRequests, TxPayloads)
    \/ TcpParseResponse(TxFrames)
    \/ Return

SpecTx == InitTx /\ [][NextTx]_vars

\* ------------------------------------------- the TCP session, long payloads

\* the shortest Holding payload whose PDU, with the unit id byte, passes 65535 bytes
BigPayloadLen == 32765

BigConfigs ==
    {Builder(Some(0), Some(l), Some(t), None, None, None) :
        l \in {2, BigPayloadLen, 65535}, t \in {"HoldingRegister", "CoilRegister"}}

BigPayloads ==
    SeqsUpTo({0, 1, 4660, -1}, MaxPayload)
    \cup {SubSeq([i \in 1..BigPayloadLen |-> i % 2], 1, n) :
             n \in {BigPayloadLen - 1, BigPayloadLen}}

InitBig == InitTcp(BigConfigs, {1})

NextBig ==
    \/ TcpCreateReadRequest(MaxRequests)
    \/ TcpCreateWriteRequest(MaxRequests, BigPayloads)
    \/ TcpUnwrapOwn
    \/ Return

SpecBig == InitBig /\ [][NextBig]_vars

\* ------------------------------------------------------ the RTU session

RtuConfigs ==
    {Builder(Some(4660), Some(l), Some(t), None, None, None) :
        l \in {2, 9}, t \in {"HoldingRegister", "CoilRegister", "InputRegister"}}

RtuPayloads == SeqsUpTo({0, 1, 4660}, MaxPayload) \cup {<<1, 0, 1, 1, 0, 0, 0, 0, 1>>}

RtuFrames ==
    {wrap_rtu(d, b) : d \in DeviceIds, b \in TcpBodies}
    \cup Prefixes(<<1, 3, 0, 0, 0>>, 5)

\* frame with bit b (0 = the lowest bit of byte 0) inverted
FlipBit(f, b) ==
    LET i == (b \div 8) + 1
        w == 2 ^ (b % 8)
    IN [f EXCEPT ![i] = IF (f[i] \div w) % 2 = 1 THEN f[i] - w ELSE f[i] + w]

InitRtu ==
    /\ \E b \in RtuConfigs, d \in DeviceIds :
          /\ build(b).ok
          /\ unit = build(b).unit
          /\ device_id = d
    /\ transaction_id = 0
    /\ sent = 0
    /\ pc = "idle"
    /\ op = ""
    /\ arg = << >>
    /\ wire = << >>
    /\ result = NoResult
    /\ builder = NewBuilder

RtuCreateReadRequest ==
    /\ pc = "idle"
    /\ wire' = << >>
    /\ result' = rtu_create_read_request(unit, device_id)
    /\ op' = "read"
    /\ arg' = << >>
    /\ pc' = "done"
    /\ UNCHANGED <<builder, unit, device_id, transaction_id, sent>>

RtuCreateWriteRequest(payloads) ==
    /\ pc = "idle"
    /\ \E data \in payloads :
          /\ arg' = data
          /\ result' = rtu_create_write_request(unit, device_id, data)
    /\ wire' = << >>
    /\ op' = "write"
    /\ pc' = "done"
    /\ UNCHANGED <<builder, unit, device_id, transaction_id, sent>>

RtuParseResponse(frames) ==
    /\ pc = "idle"
    /\ \E f \in frames :
          /\ arg' = f
          /\ result' = rtu_parse_response(unit, device_id, f)
    /\ op' = "parse"
    /\ wire' = << >>
    /\ pc' = "done"
    /\ UNCHANGED <<builder, unit, device_id, transaction_id, sent>>

\* the frame of the last request, handed back unchanged, is unwrapped
RtuUnwrapOwn ==
    /\ pc = "done"
    /\ op \in {"read", "write"}
    /\ result.ok
    /\ op' = IF op = "write" THEN "unwrap_own_write" ELSE "unwrap_own_read"
    /\ result' = unwrap_rtu(device_id, result.val)
    /\ UNCHANGED <<builder, unit, device_id, transaction_id, sent, pc, arg, wire>>

\* the frame of the last request comes back with one bit inverted
RtuUnwrapFlipped ==
    /\ pc = "done"
    /\ op \in {"read", "write"}
    /\ result.ok
    /\ \E b \in 0..(8 * Len(result.val) - 1) :
          /\ arg' = FlipBit(result.val, b)
          /\ result' = unwrap_rtu(device_id, FlipBit(result.val, b))
    /\ wire' = result.val
    /\ op' = "unwrap_flipped"
    /\ UNCHANGED <<builder, unit, device_id, transaction_id, sent, pc>>

NextRtu ==
    \/ RtuCreateReadRequest
    \/ RtuCreateWriteRequest(RtuPayloads)
    \/ RtuParseResponse(RtuFrames)
    \/ RtuUnwrapOwn
    \/ RtuUnwrapFlipped
    \/ Return

SpecRtu == InitRtu /\ [][NextRtu]_vars

\* ------------------------------------------------------ the Unit alone

\* the longest data part of an enumerated response PDU
MaxData == 6
\* the largest byte count of an enumerated response PDU
MaxCount == 7

UnitConfigs ==
    {Builder(Some(100), l, Some(t), r, None, None) :
        l \in {None, Some(0), Some(2), Some(3), Some(8), Some(9), Some(128)},
        t \in RegisterTypes, r \in {None, Some(65)}}

UnitPayloads == SeqsUpTo(PayloadValues, MaxPayload) \cup {<<1, 0, 1>>, <<0, 0, 0, 7>>}

ResponseCodes == {1, 2, 3, 4, 65, 127, 128, 131, 255}
ResponseData ==
    Prefixes(<<18, 52, 86, 120, 154, 188, 222, 240>>, MaxData)
    \cup Prefixes(<<13, 1, 255, 0, 128, 127, 1, 2>>, MaxData)
    \cup Prefixes(<<0, 0, 0, 0, 0, 0, 0, 0>>, MaxData)

ResponsePdus ==
    {<< >>}
    \cup {<<fc>> : fc \in ResponseCodes}
    \cup {<<fc, bc>> \o d : fc \in ResponseCodes, bc \in 0..MaxCount, d \in ResponseData}

InitUnit ==
    /\ \E b \in UnitConfigs :
          /\ build(b).ok
          /\ unit = build(b).unit
    /\ device_id = 0
    /\ transaction_id = 0
    /\ sent = 0
    /\ pc = "idle"
    /\ op = ""
    /\ arg = << >>
    /\ wire = << >>
    /\ result = NoResult
    /\ builder = NewBuilder

UnitCreateReadRequest ==
    /\ pc = "idle"
    /\ op' = "unit_read"
    /\ arg' = << >>
    /\ result' = create_read_request(unit)
    /\ pc' = "done"
    /\ UNCHANGED <<builder, unit, device_id, transaction_id, sent, wire>>

UnitGetWriteRequest(payloads) ==
    /\ pc = "idle"
    /\ \E data \in payloads :
          /\ arg' = data
          /\ result' = get_write_request(unit, data)
    /\ op' = "unit_write"
    /\ pc' = "done"
    /\ UNCHANGED <<builder, unit, device_id, transaction_id, sent, wire>>

UnitParseResponse(pdus) ==
    /\ pc = "idle"
    /\ \E p \in pdus :
          /\ arg' = p
          /\ result' = parse_response(unit, p)
    /\ op' = "unit_parse"
    /\ pc' = "done"
    /\ UNCHANGED <<builder, unit, device_id, transaction_id, sent, wire>>

NextUnit ==
    \/ UnitCreateReadRequest
    \/ UnitGetWriteRequest(UnitPayloads)
    \/ UnitParseResponse(ResponsePdus)
    \/ Return

SpecUnit == InitUnit /\ [][NextUnit]_vars

\* ------------------------------------------------- the Unit alone: writes

\* the shortest Holding payload whose data bytes number more than 255
HoldingWrap == 128
\* the shortest Coil payload whose data bytes number more than 255
CoilWrap == 2041

WriteConfigs ==
    {Builder(Some(4660), l, Some(t), None, w, m) :
        l \in {None, Some(0), Some(3), Some(HoldingWrap + 2), Some(CoilWrap + 9)},
        t \in RegisterTypes, w \in {None, Some(16), Some(70)}, m \in {None, Some(6), Some(71)}}

LongPayload(n) == SubSeq([i \in 1..n |-> i % 2], 1, n)

WritePayloads ==
    SeqsUpTo(PayloadValues, MaxPayload)
    \cup {<<1, 0, 1>>, <<0, 0, 0, 7>>, <<0, 2, 1, 5>>, <<1, 0, 1, 1, 0, 0, 0, 0, 1>>,
          <<-32768, 32767, -1>>, <<32768>>, <<65535>>, <<65536>>, <<-32769>>,
          <<1, 70000, -40000>>}
    \cup {LongPayload(n) : n \in {HoldingWrap - 1, HoldingWrap, CoilWrap - 1, CoilWrap}}

InitWrite ==
    /\ \E b \in WriteConfigs :
          /\ build(b).ok
          /\ unit = build(b).unit
    /\ device_id = 0
    /\ transaction_id = 0
    /\ sent = 0
    /\ pc = "idle"
    /\ op = ""
    /\ arg = << >>
    /\ wire = << >>
    /\ result = NoResult
    /\ builder = NewBuilder

NextWrite ==
    \/ UnitGetWriteRequest(WritePayloads)
    \/ Return

SpecWrite == InitWrite /\ [][NextWrite]_vars

\* ------------------------------------------------------------ the builders

BuildAddresses == {-1, 0, 100, 65535, 65536}
BuildLengths == {-1, 0, 1, 65435, 65436, 65535, 65536}
BuildTypes == {"CoilRegister", "HoldingRegister"}
BuildCommands == {-1, 65, 256}

InitBuild ==
    /\ builder = NewBuilder
    /\ unit = NoUnit
    /\ device_id = 0
    /\ transaction_id = 0
    /\ sent = 0
    /\ pc = "idle"
    /\ op = ""
    /\ arg = << >>
    /\ wire = << >>
    /\ result = NoResult

\* a setter changes one field of the builder and nothing else
Setter(field, values) ==
    /\ pc = "idle"
    /\ \E v \in values : builder' = [builder EXCEPT !.unit_builder[field] = Some(v)]
    /\ UNCHANGED <<unit, device_id, transaction_id, sent, pc, op, arg, wire, result>>

BuilderAddress == Setter("start_addr", BuildAddresses)
BuilderLength == Setter("length", BuildLengths)
BuilderRegisterType == Setter("register_type", BuildTypes)
BuilderWithReadCmd == Setter("spec_read_cmd", BuildCommands)
BuilderWithWriteCmd == Setter("spec_write_cmd", BuildCommands)
BuilderWithMultiWriteCmd == Setter("spec_multi_write_cmd", BuildCommands)

BuilderDeviceId ==
    /\ pc = "idle"
    /\ \E d \in DeviceIds : builder' = [builder EXCEPT !.device_id = Some(d)]
    /\ UNCHANGED <<unit, device_id, transaction_id, sent, pc, op, arg, wire, result>>

\* ModbusUnitBuilder::build on the Unit's builder alone
UnitBuild ==
    /\ pc = "idle"
    /\ result' = build(builder.unit_builder)
    /\ unit' = build(builder.unit_builder).unit
    /\ op' = "unit_build"
    /\ pc' = "done"
    /\ UNCHANGED <<builder, device_id, transaction_id, sent, arg, wire>>

TcpBuild ==
    /\ pc = "idle"
    /\ result' = tcp_build(builder)
    /\ unit' = tcp_build(builder).unit
    /\ device_id' = tcp_build(builder).device_id
    /\ transaction_id' = 0
    /\ op' = "tcp_build"
    /\ pc' = "done"
    /\ UNCHANGED <<builder, sent, arg, wire>>

RtuBuild ==
    /\ pc = "idle"
    /\ result' = rtu_build(builder)
    /\ unit' = rtu_build(builder).unit
    /\ device_id' = rtu_build(builder).device_id
    /\ op' = "rtu_build"
    /\ pc' = "done"
    /\ UNCHANGED <<builder, transaction_id, sent, arg, wire>>

\* build(self) has consumed the builder; the caller starts with a new one
BuilderNew ==
    /\ pc = "done"
    /\ builder' = NewBuilder
    /\ unit' = NoUnit
    /\ device_id' = 0
    /\ pc' = "idle"
    /\ op' = ""
    /\ result' = NoResult
    /\ UNCHANGED <<transaction_id, sent, arg, wire>>

NextBuild ==
    \/ BuilderAddress
    \/ BuilderLength
    \/ BuilderRegisterType
    \/ BuilderWithReadCmd
    \/ BuilderWithWriteCmd
    \/ BuilderWithMultiWriteCmd
    \/ BuilderDeviceId
    \/ UnitBuild
    \/ TcpBuild
    \/ RtuBuild
    \/ BuilderNew

SpecBuild == InitBuild /\ [][NextBuild]_vars

\* ------------------------------------------------------------------ claims

\* the transaction id carried by bytes 0-1 of a TCP frame
FrameTid(f) == f[1] * 256 + f[2]

\* C1: the k-th request frame a TCP transport returns carries transaction id
\* k mod 65536 in bytes 0-1, whatever calls came between: 1 first, one more each
\* time, 0 after 65535; the counter itself is the number of frames sent mod 65536.
C1_TransactionIdSequence ==
    /\ transaction_id = sent % 65536
    /\ (op \in {"read", "write"} /\ result.ok) => FrameTid(result.val) = sent % 65536

\* the 65536th frame has been returned and carries id 0
C1_Witness ==
    /\ op = "write"
    /\ result.ok
    /\ sent = 65536
    /\ FrameTid(result.val) = 0

\* C2: a create_write_request that fails, and any parse_response, leaves the
\* transaction id, the Unit and the device id as they were, so the frame of the
\* next read request is the one it would have been without that call.
C2_FailedCallLeavesTransport ==
    [][(pc = "idle" /\ (op' = "parse" \/ (op' = "write" /\ ~result'.ok)))
        => /\ transaction_id' = transaction_id
           /\ unit' = unit
           /\ device_id' = device_id
           /\ sent' = sent
           /\ tcp_create_read_request(unit', device_id', transaction_id').res
                 = tcp_create_read_request(unit, device_id, transaction_id).res]_vars

\* a write has failed on a transport that has already sent a frame
C2_Witness ==
    /\ op = "write"
    /\ ~result.ok
    /\ result.inner = "ValueOverflow"
    /\ transaction_id = 1

\* C5: no received frame makes TCP parse_response abort: it returns a value or
\* an error of the taxonomy.
C5_ParseIsTotal == op = "parse" => result.err # "PANIC"

DefaultReadCode(t) ==
    CASE t = "CoilRegister" -> 1
      [] t = "DiscreteRegister" -> 2
      [] t = "HoldingRegister" -> 3
      [] t = "InputRegister" -> 4

\* C6: a TCP read request never fails and is the 12 bytes
\* [tx_hi, tx_lo, 0, 0, 0, 6, device_id, fc, addr_hi, addr_lo, count_hi, count_lo],
\* fc being the read_command override when there is one, else the default of
\* the register type.
C6_ReadRequestFrame ==
    op = "read" =>
        /\ result.ok
        /\ result.val =
              << transaction_id \div 256, transaction_id % 256, 0, 0, 0, 6, device_id,
                 IF unit.read_cmd # None THEN unit.read_cmd[1]
                 ELSE DefaultReadCode(unit.register_type),
                 unit.start_addr \div 256, unit.start_addr % 256,
                 unit.length \div 256, unit.length % 256 >>

\* a read request of a Unit with an override and a count above 255
C6_Witness ==
    /\ op = "read"
    /\ unit.read_cmd = Some(65)
    /\ unit.length = 300
    /\ unit.start_addr = 4660
    /\ result.val = <<0, 2, 0, 0, 0, 6, 17, 65, 18, 52, 1, 44>>

\* C9: TCP unwrap reports the first failure in the order length < 7, protocol id,
\* unit id, declared length; otherwise the PDU is frame[7 .. 6 + declared length],
\* whatever the transaction id bytes are, and parse_response goes on with it.
C9_TcpUnwrapOrder ==
    op = "parse" =>
        LET f == arg
            protocol == f[3] * 256 + f[4]
            declared == f[5] * 256 + f[6]
        IN IF Len(f) < 7 THEN result = Err("FrameTooShort", << >>)
           ELSE IF protocol # 0 THEN result = Err("InvalidProtocolId", <<protocol>>)
           ELSE IF f[7] # device_id
           THEN result = Err("UnitIdMismatch", <<device_id, f[7]>>)
           ELSE IF Len(f) < 6 + declared THEN result = Err("FrameTooShort", << >>)
           ELSE result = Protocol(parse_response(unit, SubSeq(f, 8, 6 + declared)))

\* C3: an RTU frame wrapped around the PDU of an accepted write payload unwraps,
\* on the same transport, to exactly that PDU.
C3_RtuRoundTrip ==
    op = "unwrap_own_write" => result = Ok(get_write_request(unit, arg).val)

\* the frame of a nine-coil write has been unwrapped
C3_Witness ==
    /\ op = "unwrap_own_write"
    /\ arg = <<1, 0, 1, 1, 0, 0, 0, 0, 1>>
    /\ result.val = <<15, 18, 52, 0, 9, 2, 13, 1>>

\* C4: a TCP frame wrapped around the PDU of an accepted write payload carries
\* the MBAP length pdu.len() + 1 and unwraps, on the same transport, to exactly
\* that PDU.
C4_TcpRoundTrip ==
    /\ (op = "write" /\ result.ok) =>
          result.val[5] * 256 + result.val[6] = Len(get_write_request(unit, arg).val) + 1
    /\ op = "unwrap_own_write" => result = Ok(get_write_request(unit, arg).val)

\* C7 as stated: whichever bit of a wrapped RTU frame is inverted, unwrap fails
\* with CrcMismatch.
C7_AnyFlipIsCrcMismatch == op = "unwrap_flipped" => result.err = "CrcMismatch"

\* C7 as amended: an inverted bit in bytes 1.. of a wrapped RTU frame makes unwrap
\* fail with CrcMismatch; an inverted bit in byte 0, the address byte, makes it
\* fail with UnitIdMismatch{expected: device_id, received: the changed byte}.
C7_FlipIsRejected ==
    op = "unwrap_flipped" =>
        IF arg[1] # wire[1]
        THEN result = Err("UnitIdMismatch", <<device_id, arg[1]>>)
        ELSE /\ result.err = "CrcMismatch"
             /\ result.info[1] # result.info[2]

\* a bit of the CRC trailer was inverted, and a bit of the address byte
C7_Witness ==
    /\ op = "unwrap_flipped"
    /\ arg[Len(arg)] # wire[Len(wire)]
    /\ result.err = "CrcMismatch"

\* C8: the Unit's parse_response returns EmptyResponse for an empty PDU, and for
\* a PDU whose first byte has bit 0x80 set it returns
\* ModbusException(first byte, second byte or 0 when there is none), whatever the
\* register type, the length, the overrides and the rest of the PDU.
C8_ExceptionFirst ==
    op = "unit_parse" =>
        /\ arg = << >> => result = Err("EmptyResponse", << >>)
        /\ (arg # << >> /\ (arg[1] \div 128) % 2 = 1) =>
              result = Err("ModbusException",
                           <<arg[1], IF Len(arg) >= 2 THEN arg[2] ELSE 0>>)

\* a one-byte exception PDU was parsed by a Coil Unit with a read override
C8_Witness ==
    /\ op = "unit_parse"
    /\ arg = <<131>>
    /\ unit.register_type = "CoilRegister"
    /\ unit.read_cmd = Some(65)
    /\ result.info = <<131, 0>>

\* the byte count a response must declare
NeededBytes(u) ==
    IF u.register_type \in {"HoldingRegister", "InputRegister"} THEN u.length * 2
    ELSE IF u.length % 8 = 0 THEN u.length \div 8 ELSE (u.length \div 8) + 1

\* C10: a response PDU with the accepted function code is decoded iff byte 1 is
\* length*2 (Holding, Input) or ceil(length/8) (Coil, Discrete) and that many
\* bytes follow; the result then has `length` values, value i being the
\* big-endian word at offset 2+2i, or bit (i mod 8) of the byte at offset
\* 2 + (i div 8); in every other case the result is InvalidResponseLength.
C10_ResponseDecoding ==
    (op = "unit_parse" /\ arg # << >> /\ arg[1] = DefaultReadCode(unit.register_type)) =>
        IF Len(arg) >= 2 /\ arg[2] = NeededBytes(unit) /\ Len(arg) - 2 >= NeededBytes(unit)
        THEN /\ result.ok
             /\ Len(result.val) = unit.length
             /\ \A i \in 0..(unit.length - 1) :
                   result.val[i + 1] =
                      IF unit.register_type \in {"HoldingRegister", "InputRegister"}
                      THEN arg[2 + 2 * i + 1] * 256 + arg[2 + 2 * i + 2]
                      ELSE (arg[2 + (i \div 8) + 1] \div (2 ^ (i % 8))) % 2
        ELSE result = Err("InvalidResponseLength", << >>)

\* nine discrete inputs were decoded from two bytes
C10_Witness ==
    /\ op = "unit_parse"
    /\ unit.register_type = "DiscreteRegister"
    /\ unit.length = 9
    /\ arg = <<2, 2, 13, 1, 255>>
    /\ result.val = <<1, 0, 1, 1, 0, 0, 0, 0, 1>>

\* the write function code the register type gives when nothing overrides it
DefaultWriteCode(t, n) ==
    CASE t = "CoilRegister" -> IF n = 1 THEN 5 ELSE 15
      [] t = "HoldingRegister" -> IF n = 1 THEN 6 ELSE 16

\* ceil(n / 8)
CeilDiv8(n) == IF n % 8 = 0 THEN n \div 8 ELSE (n \div 8) + 1

\* C11: for a payload no longer than the Unit's length, the first byte of a
\* Coil or Holding write PDU is the write_command override (else 0x05 / 0x06)
\* when the payload has one element, and the multi_write_command override (else
\* 0x0F / 0x10) otherwise; the body layout follows the payload length alone,
\* override or not; on a Discrete or Input Unit the write fails with
\* InvalidRegisterTypeForWriteCommand, overrides or not.
C11_WriteCommandSelection ==
    (op = "unit_write" /\ Len(arg) <= unit.length) =>
        LET n == Len(arg)
            t == unit.register_type
            over == IF n = 1 THEN unit.write_cmd ELSE unit.multi_write_cmd
            \* the same Unit without write overrides
            plain == [unit EXCEPT !.write_cmd = None, !.multi_write_cmd = None]
        IN IF t \in {"DiscreteRegister", "InputRegister"}
           THEN result = Err("InvalidRegisterTypeForWriteCommand", <<TypeIndex(t)>>)
           ELSE result.ok =>
                  /\ result.val[1] = IF over # None THEN over[1] ELSE DefaultWriteCode(t, n)
                  /\ SubSeq(result.val, 2, Len(result.val)) =
                        SubSeq(get_write_request(plain, arg).val, 2, Len(result.val))
                  /\ Len(result.val) = Len(get_write_request(plain, arg).val)

\* one value written with the single-write code overridden to 0x10
C11_Witness ==
    /\ op = "unit_write"
    /\ unit.register_type = "HoldingRegister"
    /\ unit.write_cmd = Some(16)
    /\ unit.length = 3
    /\ arg = <<4660>>
    /\ result.val = <<16, 18, 52, 18, 52>>

\* the 16-bit word that stands for a value of -32768..65535
Word(v) == IF v < 0 THEN v + 65536 ELSE v

\* C12: on a Holding Unit a payload of n values, each within -32768..=32767,
\* 1 <= n <= length, gives the 5 bytes [cmd, addr_hi, addr_lo, v_hi, v_lo] when
\* n = 1, and otherwise [cmd, addr_hi, addr_lo, n_hi, n_lo, byte_count] followed by
\* the n values big-endian, the byte_count byte being n*2 and the number of data
\* bytes that follow it.
C12_HoldingWriteBody ==
    (/\ op = "unit_write"
     /\ unit.register_type = "HoldingRegister"
     /\ 1 <= Len(arg) /\ Len(arg) <= unit.length
     /\ \A i \in 1..Len(arg) : -32768 <= arg[i] /\ arg[i] <= 32767) =>
        LET n == Len(arg)
            pdu == result.val
        IN /\ result.ok
           /\ pdu[2] = unit.start_addr \div 256
           /\ pdu[3] = unit.start_addr % 256
           /\ IF n = 1
              THEN /\ Len(pdu) = 5
                   /\ pdu[4] = Word(arg[1]) \div 256
                   /\ pdu[5] = Word(arg[1]) % 256
              ELSE /\ pdu[4] = n \div 256
                   /\ pdu[5] = n % 256
                   /\ pdu[6] = n * 2
                   /\ pdu[6] = Len(pdu) - 6
                   /\ \A i \in 1..n :
                         /\ pdu[6 + 2 * i - 1] = Word(arg[i]) \div 256
                         /\ pdu[6 + 2 * i] = Word(arg[i]) % 256

\* the lowest 0-based index of a payload element that is neither 0 nor 1, else -1
FirstBadCoil(data) ==
    LET bad == {i \in 1..Len(data) : data[i] \notin {0, 1}}
    IN IF bad = {} THEN -1 ELSE (CHOOSE i \in bad : \A j \in bad : i <= j) - 1

\* C13: on a Coil Unit a payload of n elements, 1 <= n <= length, fails with
\* InvalidCoilValue(value, index) for the lowest index whose element is not 0 or
\* 1; otherwise it gives [cmd, addr_hi, addr_lo, 0xFF or 0x00, 0x00] when n = 1 and
\* [cmd, addr_hi, addr_lo, n_hi, n_lo, byte_count] followed by exactly ceil(n/8)
\* data bytes when n > 1, the byte_count byte being ceil(n/8), element i being bit
\* (i mod 8) of data byte (i div 8), the unused high bits of the last byte 0.
C13_CoilWriteBody ==
    (/\ op = "unit_write"
     /\ unit.register_type = "CoilRegister"
     /\ 1 <= Len(arg) /\ Len(arg) <= unit.length) =>
        LET n == Len(arg)
            pdu == result.val
            k == FirstBadCoil(arg)
        IN IF k >= 0 THEN result = Err("InvalidCoilValue", <<arg[k + 1], k>>)
           ELSE /\ result.ok
                /\ pdu[2] = unit.start_addr \div 256
                /\ pdu[3] = unit.start_addr % 256
                /\ IF n = 1
                   THEN /\ Len(pdu) = 5
                        /\ pdu[4] = (IF arg[1] = 1 THEN 255 ELSE 0)
                        /\ pdu[5] = 0
                   ELSE /\ pdu[4] = n \div 256
                        /\ pdu[5] = n % 256
                        /\ pdu[6] = CeilDiv8(n)
                        /\ Len(pdu) = 6 + CeilDiv8(n)
                        /\ \A i \in 0..(n - 1) :
                              (pdu[6 + (i \div 8) + 1] \div (2 ^ (i % 8))) % 2 = arg[i + 1]
                        /\ \A i \in n..(8 * CeilDiv8(n) - 1) :
                              (pdu[6 + (i \div 8) + 1] \div (2 ^ (i % 8))) % 2 = 0

C15_WriteNeedsFullData ==
    (op = "write" /\ Len(arg) < unit.length) =>
        /\ ~result.ok
        /\ result.err = "Protocol"
        /\ result.val = << >>

\* C16: a Holding write accepts every payload element within -32768..=65535 and
\* encodes its low 16 bits big-endian; an element outside that range makes the
\* call fail with ValueOverflow carrying that value; no value is encoded
\* truncated.
C16_HoldingValueRange ==
    (/\ op = "unit_write"
     /\ unit.register_type = "HoldingRegister"
     /\ Len(arg) <= unit.length) =>
        LET n == Len(arg)
            pdu == result.val
            out == {i \in 1..n : arg[i] < -32768 \/ arg[i] > 65535}
            data_at == Len(pdu) - 2 * n
        IN IF out = {}
           THEN /\ result.ok
                /\ \A i \in 1..n :
                      /\ pdu[data_at + 2 * i - 1] = Word(arg[i]) \div 256
                      /\ pdu[data_at + 2 * i] = Word(arg[i]) % 256
           ELSE /\ result.err = "ValueOverflow"
                /\ \E i \in out : result.info = <<arg[i]>>

\* C17: with a register type set and no command overrides, build() succeeds iff
\* 0 <= address <= 65535, 0 <= length <= 65535 (1 when omitted) and
\* address + length <= 65535; otherwise it fails with InvalidAddress when the
\* address is out of bounds, else InvalidLength when the length is, else
\* RangeToMatch(address, length, address + length); every Unit that exists has
\* start_address + length <= 65535.
C17_BuildRange ==
    /\ (op \in {"unit_build", "tcp_build", "rtu_build"} /\ result.ok) =>
          unit.start_addr + unit.length <= 65535
    /\ LET ub == builder.unit_builder
           a == ub.start_addr[1]
           l == IF ub.length = None THEN 1 ELSE ub.length[1]
       IN (/\ op = "unit_build"
           /\ ub.start_addr # None
           /\ ub.register_type # None
           /\ ub.spec_read_cmd = None
           /\ ub.spec_write_cmd = None
           /\ ub.spec_multi_write_cmd = None) =>
              /\ result.ok <=> (0 <= a /\ a <= 65535 /\ 0 <= l /\ l <= 65535 /\ a + l <= 65535)
              /\ result.ok => (unit.start_addr = a /\ unit.length = l)
              /\ ~result.ok =>
                    IF a < 0 \/ a > 65535 THEN result = BuildErr("InvalidAddress", <<a>>)
                    ELSE IF l < 0 \/ l > 65535 THEN result = BuildErr("InvalidLength", <<l>>)
                    ELSE result = BuildErr("RangeToMatch", <<a, l, a + l>>)

\* a Unit whose range ends exactly at 65535 was built
C17_Witness ==
    /\ op = "unit_build"
    /\ builder.unit_builder =
          Builder(Some(100), Some(65435), Some("HoldingRegister"), None, None, None)
    /\ result.ok
    /\ unit.start_addr + unit.length = 65535

\* C18: every Unit that build() produces has a length in 1..=65535; an omitted
\* length gives 1, and no sequence of builder calls followed by a successful
\* build() gives a Unit of length 0.
C18_UnitLengthPositive ==
    (op \in {"unit_build", "tcp_build", "rtu_build"} /\ result.ok) =>
        /\ 1 <= unit.length /\ unit.length <= 65535
        /\ builder.unit_builder.length = None => unit.length = 1

\* the violated rules of a Unit builder, in the order build() is said to check them
ViolatedRules(ub) ==
    LET a == ub.start_addr[1]
        l == IF ub.length = None THEN 1 ELSE ub.length[1]
        BadCmd(c) == c # None /\ (c[1] < 0 \/ c[1] > 255)
    IN <<ub.start_addr = None,
         ub.start_addr # None /\ (a < 0 \/ a > 65535),
         ub.register_type = None,
         l < 0 \/ l > 65535,
         ub.start_addr # None /\ a + l > 65535,
         BadCmd(ub.spec_read_cmd),
         BadCmd(ub.spec_write_cmd),
         BadCmd(ub.spec_multi_write_cmd)>>

RuleErrors ==
    <<"AddressIsEmpty", "InvalidAddress", "InvalidRegisterType", "InvalidLength",
      "RangeToMatch", "InvalidReadCommand", "InvalidWriteCommand",
      "InvalidWriteMultiCommand">>

\* the error of the earliest violated rule, "" when no rule is violated
FirstViolation(ub) ==
    LET v == ViolatedRules(ub)
        bad == {i \in 1..Len(v) : v[i]}
    IN IF bad = {} THEN "" ELSE RuleErrors[CHOOSE i \in bad : \A j \in bad : i <= j]

\* C19: build() returns the error of the earliest violated rule in the order
\* address, register type, length, range, read command, write command,
\* multi-write command, and then produces no Unit; the TCP and RTU builders return
\* that error wrapped as Protocol before they look at the device id, and
\* DeviceIdMissing exactly when the Unit configuration is valid and no device id
\* was set.
C19_FirstViolatedRule ==
    LET first == FirstViolation(builder.unit_builder) IN
    /\ op = "unit_build" =>
          /\ result.ok <=> first = ""
          /\ result.err = first
          /\ ~result.ok => unit = NoUnit
    /\ op \in {"tcp_build", "rtu_build"} =>
          IF first # ""
          THEN /\ result.err = "Protocol"
               /\ result.inner = first
               /\ unit = NoUnit
          ELSE IF builder.device_id = None
          THEN result = TransportErr("DeviceIdMissing", "", << >>)
          ELSE /\ result.ok
               /\ device_id = builder.device_id[1]

\* a TCP builder with a bad address, no register type, a bad length, bad commands
\* and no device id
C19_Witness ==
    /\ op = "tcp_build"
    /\ builder = TransportBuilder(
          Builder(Some(65536), Some(-1), None, Some(256), Some(-1), Some(256)), None)
    /\ result = TransportErr("Protocol", "InvalidAddress", <<65536>>)

\* C20: parse_response accepts a response whose function code is byte 0 of the
\* Unit's own create_read_request output (an override below 0x80 included) when
\* the byte count and the data are right, and a response with any other function
\* code without bit 0x80 gives UnexpectedFunctionCode(expected, actual), expected
\* being that request function code.
C20_RequestResponseCode ==
    LET fc == create_read_request(unit).val[1] IN
    (op = "unit_parse" /\ arg # << >> /\ arg[1] < 128 /\ fc < 128) =>
        IF arg[1] = fc
        THEN (Len(arg) >= 2 /\ arg[2] = NeededBytes(unit) /\ Len(arg) - 2 >= NeededBytes(unit))
                => result.ok
        ELSE result = Err("UnexpectedFunctionCode", <<fc, arg[1]>>)

====
